---------------------------- MODULE Spec2Model ----------------------------
(***************************************************************************)
(* A model of src/app.py: the FileProcessor (classification of files,      *)
(* directory scan, sequential and parallel concatenation, statistics) and  *)
(* the Flask routes /list-files and /process that drive it.                *)
(*                                                                         *)
(* File and directory names are sequences of one-character strings, so     *)
(* that lower(), startswith(), Path.suffix and string comparison are       *)
(* computed character by character.  A path is the sequence of its parts  *)
(* (pathlib's Path.parts); an absolute path starts with the part "/".      *)
(* File contents are sequences of bytes (0..255).                          *)
(***************************************************************************)
EXTENDS Integers, Sequences, FiniteSets, TLC

(***************************************************************************)
(* Bounds of the model.                                                    *)
(***************************************************************************)
\* longest file content (bytes) drawn for the classifier
MaxBytes == 3
\* entry-point calls (requests) in one behaviour
MaxRuns == 2

(***************************************************************************)
(* Characters and strings.                                                 *)
(***************************************************************************)
\* the characters names are made of, in ascending code-point order
Chars ==
    <<".", "/",
      "A", "B", "C", "D", "E", "F", "G", "H", "I", "J", "K", "L", "M",
      "N", "O", "P", "Q", "R", "S", "T", "U", "V", "W", "X", "Y", "Z",
      "_",
      "a", "b", "c", "d", "e", "f", "g", "h", "i", "j", "k", "l", "m",
      "n", "o", "p", "q", "r", "s", "t", "u", "v", "w", "x", "y", "z">>

CharSet == {Chars[i] : i \in 1..Len(Chars)}

\* the code point of a character
Code ==
    [c \in CharSet |->
        LET i == CHOOSE k \in 1..Len(Chars) : Chars[k] = c
        IN  CASE i = 1 -> 46
              [] i = 2 -> 47
              [] i \in 3..28 -> 62 + i
              [] i = 29 -> 95
              [] OTHER -> 67 + i]

Chr(n) == CHOOSE c \in CharSet : Code[c] = n

\* str.lower() on one character, then on a string
LowerChar ==
    [c \in CharSet |-> IF Code[c] \in 65..90 THEN Chr(Code[c] + 32) ELSE c]

lower(s) == [i \in 1..Len(s) |-> LowerChar[s[i]]]

\* str.startswith
startswith(s, prefix) ==
    /\ Len(prefix) <= Len(s)
    /\ SubSeq(s, 1, Len(prefix)) = prefix

\* str.rfind('.'): the last index of a dot, 0 when there is none
\* (Python's -1 and 0-based indexes, shifted by one)
LastDot(s) ==
    IF \E i \in 1..Len(s) : s[i] = "."
    THEN CHOOSE i \in 1..Len(s) : s[i] = "." /\ \A j \in (i+1)..Len(s) : s[j] # "."
    ELSE 0

\* pathlib's Path.suffix: the part of the name from its last dot, unless that
\* dot is the first or the last character of the name
suffix(name) ==
    LET i == LastDot(name)
    IN  IF 1 < i /\ i < Len(name) THEN SubSeq(name, i, Len(name)) ELSE <<>>

\* s < t for Python strings: lexicographic by code point
RECURSIVE StrLess(_, _)
StrLess(s, t) ==
    IF t = <<>> THEN FALSE
    ELSE IF s = <<>> THEN TRUE
    ELSE IF Code[Head(s)] # Code[Head(t)] THEN Code[Head(s)] < Code[Head(t)]
    ELSE StrLess(Tail(s), Tail(t))

\* "/".join(parts): str() of a relative path
RECURSIVE JoinPath(_)
JoinPath(parts) ==
    IF parts = <<>> THEN <<>>
    ELSE IF Len(parts) = 1 THEN parts[1]
    ELSE parts[1] \o <<"/">> \o JoinPath(Tail(parts))

(***************************************************************************)
(* FileProcessor.__init__: the configuration.                              *)
(***************************************************************************)
excluded_dirs ==
    {<<".", "v", "e", "n", "v">>,
     <<"_", "_", "p", "y", "c", "a", "c", "h", "e", "_", "_">>,
     <<".", "g", "i", "t">>,
     <<"n", "o", "d", "e", "_", "m", "o", "d", "u", "l", "e", "s">>,
     <<"v", "e", "n", "v">>,
     <<"e", "n", "v">>}

included_extensions ==
    {<<".", "p", "y">>,
     <<".", "t", "x", "t">>,
     <<".", "m", "d">>,
     <<".", "h", "t", "m", "l">>,
     <<".", "c", "s", "s">>,
     <<".", "j", "s">>,
     <<".", "j", "a", "v", "a">>,
     <<".", "j", "s", "o", "n">>,
     <<".", "x", "m", "l">>,
     <<".", "y", "a", "m", "l">>,
     <<".", "y", "m", "l">>,
     <<".", "c", "f", "g">>,
     <<".", "c", "o", "n", "f">>,
     <<".", "l", "o", "g">>,
     <<".", "e", "n", "v">>,
     <<".", "e", "x", "a", "m", "p", "l", "e">>,
     <<".", "g", "i", "t", "i", "g", "n", "o", "r", "e">>,
     <<".", "d", "o", "c", "k", "e", "r", "f", "i", "l", "e">>,
     <<".", "s", "q", "l">>,
     <<".", "s", "h">>,
     <<".", "b", "a", "t">>}

\* the local special_files of is_text_file
special_files ==
    {<<"r", "e", "a", "d", "m", "e">>,
     <<"l", "i", "c", "e", "n", "s", "e">>,
     <<"d", "o", "c", "k", "e", "r", "f", "i", "l", "e">>,
     <<"m", "a", "k", "e", "f", "i", "l", "e">>,
     <<".", "e", "n", "v", ".", "e", "x", "a", "m", "p", "l", "e">>,
     <<".", "g", "i", "t", "i", "g", "n", "o", "r", "e">>,
     <<".", "e", "n", "v">>}

\* the hidden names the scan lets through
allowed_hidden ==
    {<<".", "e", "n", "v">>,
     <<".", "e", "n", "v", ".", "e", "x", "a", "m", "p", "l", "e">>,
     <<".", "g", "i", "t", "i", "g", "n", "o", "r", "e">>}

\* the version-control directories excluded by name
vcs_dirs ==
    {<<".", "g", "i", "t">>, <<".", "s", "v", "n">>, <<".", "h", "g">>}

\* MAX_FILE_SIZE default, bytes
max_file_size == 10485760

\* file.read(1024): the size of the probe of _check_file_content
ProbeSize == 1024

\* range(3) in _check_file_content
ProbeAttempts == 3

\* max_retries of read_file_chunk
max_retries == 3

(***************************************************************************)
(* Bytes and text.                                                         *)
(***************************************************************************)
\* the first n elements of a sequence: file.read(n)
Take(s, n) == SubSeq(s, 1, IF Len(s) < n THEN Len(s) ELSE n)

\* bytes.decode('utf-8', errors='ignore') for one- and two-byte sequences:
\* an ASCII byte is its own character; a lead byte 0xC2..0xDF followed by a
\* continuation byte 0x80..0xBF is one character; any other byte is invalid
\* and dropped.  The result is the sequence of code points.
RECURSIVE Utf8Decode(_)
Utf8Decode(b) ==
    IF b = <<>> THEN <<>>
    ELSE IF b[1] < 128 THEN <<b[1]>> \o Utf8Decode(Tail(b))
    ELSE IF /\ b[1] \in 194..223
            /\ Len(b) >= 2
            /\ b[2] \in 128..191
         THEN <<(b[1] - 192) * 64 + (b[2] - 128)>> \o Utf8Decode(SubSeq(b, 3, Len(b)))
    ELSE Utf8Decode(Tail(b))

\* str.isspace() for code points below 256
IsSpace(c) == c \in {9, 10, 11, 12, 13, 28, 29, 30, 31, 32, 133, 160}

\* len(text.strip()) > 0: some character is not whitespace
StripNonEmpty(text) == \E i \in 1..Len(text) : ~IsSpace(text[i])

(***************************************************************************)
(* Classification: is_text_file and its helpers.  A file is a record       *)
(*   path      its absolute path, as parts; the last part is its name      *)
(*   bytes     its content                                                 *)
(*   mode      "ok", "denied" (exists, not readable) or "missing"          *)
(*   open_errs how many of the first open() calls of a content probe fail  *)
(*             with PermissionError/OSError                                *)
(***************************************************************************)
\* Path.name
FileName(f) == f.path[Len(f.path)]

is_hidden(name) == startswith(name, <<".">>)

_can_access_file(f) == f.mode = "ok"

\* one iteration of the attempt loop of _check_file_content, and the rest
RECURSIVE CheckAttempt(_, _)
CheckAttempt(f, attempt) ==
    IF attempt >= ProbeAttempts THEN FALSE
    ELSE IF attempt < f.open_errs
         THEN IF attempt < 2 THEN CheckAttempt(f, attempt + 1) ELSE FALSE
    ELSE IF 0 \in {Take(f.bytes, ProbeSize)[i] : i \in 1..Len(Take(f.bytes, ProbeSize))}
         THEN FALSE
    ELSE StripNonEmpty(Take(Utf8Decode(f.bytes), ProbeSize))

\* a content probe that decodes without looking for a null byte
_check_file_content_decode_only(f) ==
    StripNonEmpty(Take(Utf8Decode(f.bytes), ProbeSize))

_check_file_content(f) == CheckAttempt(f, 0)

\* the extension and special-name whitelists of is_text_file
InWhitelist(f) ==
    \/ lower(suffix(FileName(f))) \in included_extensions
    \/ lower(FileName(f)) \in special_files
    \/ \E sf \in special_files : startswith(lower(FileName(f)), sf)

is_text_file(f) ==
    IF ~_can_access_file(f) THEN FALSE
    ELSE IF InWhitelist(f) THEN TRUE
    ELSE _check_file_content(f)

(***************************************************************************)
(* Names used by the file systems of the model.                            *)
(***************************************************************************)
n_slash == <<"/">>
n_dot == <<".">>
n_dotdot == <<".", ".">>
n_p == <<"p">>
n_gone == <<"g", "o", "n", "e">>
n_locked == <<"l", "o", "c", "k", "e", "d">>
n_other == <<"o", "t", "h", "e", "r">>
n_src == <<"s", "r", "c">>
n_git == <<".", "g", "i", "t">>
n_svn == <<".", "s", "v", "n">>
n_node_modules == <<"n", "o", "d", "e", "_", "m", "o", "d", "u", "l", "e", "s">>
n_Node_Modules == <<"N", "o", "d", "e", "_", "M", "o", "d", "u", "l", "e", "s">>
n_a_py == <<"a", ".", "p", "y">>
n_b_png == <<"b", ".", "p", "n", "g">>
n_config == <<"c", "o", "n", "f", "i", "g">>
n_x_js == <<"x", ".", "j", "s">>
n_data == <<"d", "a", "t", "a">>
n_hidden == <<".", "h", "i", "d", "d", "e", "n">>
n_env == <<".", "e", "n", "v">>
n_cache == <<".", "c", "a", "c", "h", "e">>
n_X_PY == <<"X", ".", "P", "Y">>
n_README == <<"R", "E", "A", "D", "M", "E">>
n_readme_bin == <<"r", "e", "a", "d", "m", "e", ".", "b", "i", "n">>
n_c_txt == <<"c", ".", "t", "x", "t">>
n_d_md == <<"d", ".", "m", "d">>
n_e_js == <<"e", ".", "j", "s">>

(***************************************************************************)
(* Paths.                                                                  *)
(***************************************************************************)
\* the working directory of the server process
Cwd == <<n_slash>>

IsAbs(p) == p # <<>> /\ p[1] = n_slash

IsPrefix(p, q) == Len(p) <= Len(q) /\ SubSeq(q, 1, Len(p)) = p

\* os.path.normpath on parts: "." is dropped, ".." removes the part before it
\* (and is dropped at the root)
RECURSIVE NormParts(_, _)
NormParts(done, rest) ==
    IF rest = <<>> THEN done
    ELSE IF Head(rest) = n_dot THEN NormParts(done, Tail(rest))
    ELSE IF Head(rest) = n_dotdot
         THEN IF done = <<>> \/ done[Len(done)] = n_dotdot
              THEN NormParts(done \o <<n_dotdot>>, Tail(rest))
              ELSE IF done = <<n_slash>> THEN NormParts(done, Tail(rest))
              ELSE NormParts(SubSeq(done, 1, Len(done) - 1), Tail(rest))
    ELSE NormParts(done \o <<Head(rest)>>, Tail(rest))

normpath(p) == NormParts(<<>>, p)

\* os.path.abspath: joined to the working directory unless absolute, then
\* normalised
abspath(p) == normpath(IF IsAbs(p) THEN p ELSE Cwd \o p)

\* pathlib's Path(str): "." parts are dropped, ".." parts are kept, a
\* relative path stays relative
RECURSIVE DropDots(_)
DropDots(p) ==
    IF p = <<>> THEN <<>>
    ELSE IF Head(p) = n_dot THEN DropDots(Tail(p))
    ELSE <<Head(p)>> \o DropDots(Tail(p))

Path(p) == DropDots(p)

\* the file the operating system finds at a path: relative paths are
\* resolved against the working directory, ".." against the parent
Resolve(p) == abspath(p)

\* PurePath.relative_to: the parts after root, or ValueError
CanRelativize(p, root) == IsPrefix(root, p)

relative_to(p, root) == SubSeq(p, Len(root) + 1, Len(p))

\* a < b for pathlib paths: their parts compared as lists of strings
RECURSIVE PathLess(_, _)
PathLess(a, b) ==
    IF b = <<>> THEN FALSE
    ELSE IF a = <<>> THEN TRUE
    ELSE IF Head(a) # Head(b) THEN StrLess(Head(a), Head(b))
    ELSE PathLess(Tail(a), Tail(b))

(***************************************************************************)
(* The file system: a sequence of files, in the order directory listings   *)
(* return them.  Besides the fields the classifier reads, a file has       *)
(*   info_ok   whether stat() in _get_file_info succeeds                   *)
(*   size      st_size                                                     *)
(*   read      how reading it for concatenation goes: "ok"; "gone" (it has *)
(*             vanished: stat() raises); "deny" (stat() works, open()       *)
(*             raises); "flaky" (stat() works, open()/read() may raise)    *)
(***************************************************************************)
File(path, bytes, mode, open_errs, info_ok, size, read) ==
    [path |-> path, bytes |-> bytes, mode |-> mode, open_errs |-> open_errs,
     info_ok |-> info_ok, size |-> size, read |-> read]

\* a readable file whose size is the length of its content
Plain(path, bytes) == File(path, bytes, "ok", 0, TRUE, Len(bytes), "ok")

\* directories that exist whatever files there are
P == <<n_slash, n_p>>
Locked == <<n_slash, n_locked>>
Gone == <<n_slash, n_gone>>
BaseDirs == {<<n_slash>>, P, Locked}

\* directories whose listing raises PermissionError
Unlistable == {Locked}

FilePaths(files) == {files[k].path : k \in 1..Len(files)}

IsDir(files, p) ==
    \/ p \in BaseDirs
    \/ \E k \in 1..Len(files) : Len(files[k].path) > Len(p) /\ IsPrefix(p, files[k].path)

IsFile(files, p) == \E k \in 1..Len(files) : files[k].path = p

\* os.path.exists / Path.exists
exists(files, p) == IsDir(files, Resolve(p)) \/ IsFile(files, Resolve(p))

FileAt(files, p) == files[CHOOSE k \in 1..Len(files) : files[k].path = Resolve(p)]

\* the files directly in directory d, in listing order (indexes into files)
RECURSIVE FilesIn(_, _, _)
FilesIn(files, d, k) ==
    IF k > Len(files) THEN <<>>
    ELSE (IF files[k].path = d \o <<FileName(files[k])>> THEN <<k>> ELSE <<>>)
         \o FilesIn(files, d, k + 1)

\* the names of the subdirectories of d, in listing order, without repeats
RECURSIVE SubdirsOf(_, _, _, _)
SubdirsOf(files, d, k, seen) ==
    IF k > Len(files) THEN <<>>
    ELSE LET p == files[k].path
             sub == p[Len(d) + 1]
         IN  IF Len(p) > Len(d) + 1 /\ IsPrefix(d, p) /\ sub \notin seen
             THEN <<sub>> \o SubdirsOf(files, d, k + 1, seen \cup {sub})
             ELSE SubdirsOf(files, d, k + 1, seen)


(***************************************************************************)
(* Statistics.  A diagnostic string of stats['errors'] is modelled as the  *)
(* pair of its fixed text and the path it names.                           *)
(***************************************************************************)
\* the stats of __init__ and of the reset in the /process route
ZeroStats ==
    [total_files |-> 0, concatenated_files |-> 0, skipped_files |-> 0,
     errors |-> <<>>, binary_files |-> 0, hidden_files |-> 0,
     processed_size |-> 0]

\* the reset of FileProcessor.process_directory, which has no 'processed_size'
MethodZeroStats ==
    [total_files |-> 0, concatenated_files |-> 0, skipped_files |-> 0,
     errors |-> <<>>, binary_files |-> 0, hidden_files |-> 0]

Bump(st, field) == [st EXCEPT ![field] = @ + 1]

AddError(st, text, path) == [st EXCEPT !.errors = Append(@, <<text, path>>)]

(***************************************************************************)
(* The scan: collect_files_with_info and its helpers.                      *)
(***************************************************************************)
\* a comparison of the name as written, not lower-cased
_should_exclude_directory_name_cs(dir_name) ==
    \/ dir_name \in excluded_dirs
    \/ startswith(dir_name, <<".">>) /\ dir_name \in vcs_dirs

\* the version-control test alone, without excluded_dirs
_should_exclude_directory_name_vcs_only(dir_name) ==
    startswith(dir_name, <<".">>) /\ lower(dir_name) \in vcs_dirs

_should_exclude_directory_name(dir_name) ==
    \/ lower(dir_name) \in {lower(name) : name \in excluded_dirs}
    \/ startswith(dir_name, <<".">>) /\ lower(dir_name) \in vcs_dirs

\* dirs[:] = [d for d in dirs if not self._should_exclude_directory_name(d)]
RECURSIVE KeptDirs(_)
KeptDirs(dirs) ==
    IF dirs = <<>> THEN <<>>
    ELSE (IF _should_exclude_directory_name(Head(dirs)) THEN <<>> ELSE <<Head(dirs)>>)
         \o KeptDirs(Tail(dirs))

\* os.walk(top), top-down, with the pruning of dirs: the files the loop body
\* sees, in order (indexes into files).  A directory that cannot be listed
\* yields nothing (os.walk ignores the error).
RECURSIVE Walk(_, _)
RECURSIVE WalkInto(_, _, _)
Walk(files, d) ==
    IF d \in Unlistable \/ ~IsDir(files, d) THEN <<>>
    ELSE FilesIn(files, d, 1)
         \o WalkInto(files, d, KeptDirs(SubdirsOf(files, d, 1, {})))

WalkInto(files, d, dirs) ==
    IF dirs = <<>> THEN <<>>
    ELSE Walk(files, d \o <<Head(dirs)>>) \o WalkInto(files, d, Tail(dirs))

\* a directory test that never fails
_can_access_directory_always(files, dir_path) == TRUE

\* list(dir_path.iterdir()) succeeds
_can_access_directory(files, dir_path) ==
    IsDir(files, dir_path) /\ dir_path \notin Unlistable

\* the descriptor of a file ('modified' is left out)
FileInfo(f, root_path) ==
    [path |-> f.path,
     relative_path |-> relative_to(f.path, root_path),
     name |-> FileName(f),
     size |-> f.size,
     selected |-> TRUE]

\* the stats after _get_file_info; it returns None exactly when stat() fails
_get_file_info_stats(f, st) ==
    IF f.info_ok THEN st ELSE AddError(st, "Error getting file info for", f.path)

\* the loop iteration without the count of a file whose metadata cannot be
\* read
ScanFileInfoUncounted(f, root_path, acc) ==
    LET st == Bump(acc.stats, "total_files")
        seen == Append(acc.visited, f.path)
    IN  IF ~_can_access_file(f)
        THEN [acc EXCEPT !.stats = Bump(st, "skipped_files"), !.visited = seen]
        ELSE IF is_hidden(FileName(f)) /\ lower(FileName(f)) \notin allowed_hidden
        THEN [acc EXCEPT !.stats = Bump(Bump(st, "hidden_files"), "skipped_files"),
                         !.visited = seen]
        ELSE IF ~is_text_file(f)
        THEN [acc EXCEPT !.stats = Bump(Bump(st, "binary_files"), "skipped_files"),
                         !.visited = seen]
        ELSE IF f.info_ok
        THEN [stats |-> _get_file_info_stats(f, st),
              files_info |-> Append(acc.files_info, FileInfo(f, root_path)),
              visited |-> seen]
        ELSE [acc EXCEPT !.stats = _get_file_info_stats(f, st), !.visited = seen]

\* one iteration of the loop over the files of a directory; acc is the record
\* of stats, files_info and the paths logged as "Processing file"
ScanFile(f, root_path, acc) ==
    LET st == Bump(acc.stats, "total_files")
        seen == Append(acc.visited, f.path)
    IN  IF ~_can_access_file(f)
        THEN [acc EXCEPT !.stats = Bump(st, "skipped_files"), !.visited = seen]
        ELSE IF is_hidden(FileName(f)) /\ lower(FileName(f)) \notin allowed_hidden
        THEN [acc EXCEPT !.stats = Bump(Bump(st, "hidden_files"), "skipped_files"),
                         !.visited = seen]
        ELSE IF ~is_text_file(f)
        THEN [acc EXCEPT !.stats = Bump(Bump(st, "binary_files"), "skipped_files"),
                         !.visited = seen]
        ELSE IF f.info_ok
        THEN [stats |-> _get_file_info_stats(f, st),
              files_info |-> Append(acc.files_info, FileInfo(f, root_path)),
              visited |-> seen]
        ELSE [acc EXCEPT !.stats = Bump(_get_file_info_stats(f, st), "skipped_files"),
                         !.visited = seen]

RECURSIVE ScanFiles(_, _, _, _)
ScanFiles(files, ks, root_path, acc) ==
    IF ks = <<>> THEN acc
    ELSE ScanFiles(files, Tail(ks), root_path, ScanFile(files[Head(ks)], root_path, acc))

\* collect_files_with_info(root_directory) on stats st: the stats it leaves,
\* the list it returns and the files it visited
collect_files_with_info(files, root_directory, st) ==
    LET root == normpath(abspath(root_directory))
        root_path == Path(root)
    IN  IF ~exists(files, root_path)
        THEN [stats |-> AddError(st, "Directory does not exist", root),
              files_info |-> <<>>, visited |-> <<>>]
        ELSE IF ~_can_access_directory(files, root_path)
        THEN [stats |-> AddError(st, "Cannot access directory", root),
              files_info |-> <<>>, visited |-> <<>>]
        ELSE ScanFiles(files, Walk(files, root), root_path,
                       [stats |-> st, files_info |-> <<>>, visited |-> <<>>])

(***************************************************************************)
(* The scan of FileProcessor.process_directory: collect_files.             *)
(***************************************************************************)
\* root_path.rglob('*'), files only: every file below d, pruning nothing
RECURSIVE RGlob(_, _)
RECURSIVE RGlobInto(_, _, _)
RGlob(files, d) ==
    IF d \in Unlistable \/ ~IsDir(files, d) THEN <<>>
    ELSE FilesIn(files, d, 1) \o RGlobInto(files, d, SubdirsOf(files, d, 1, {}))

RGlobInto(files, d, dirs) ==
    IF dirs = <<>> THEN <<>>
    ELSE RGlob(files, d \o <<Head(dirs)>>) \o RGlobInto(files, d, Tail(dirs))

\* the test on relative_to_root.parts[:-1]
InExcludedTree(rel) ==
    \E i \in 1..(Len(rel) - 1) :
        \/ lower(rel[i]) \in {lower(name) : name \in excluded_dirs}
        \/ startswith(rel[i], <<".">>) /\ lower(rel[i]) \in vcs_dirs

\* one iteration of the loop of collect_files; acc is the record of stats and
\* files_to_process
CollectFile(f, root_path, root_abs, acc) ==
    LET st == Bump(acc.stats, "total_files")
        rel == relative_to(f.path, root_abs)
    IN  IF InExcludedTree(rel)
        THEN [acc EXCEPT !.stats = Bump(st, "skipped_files")]
        ELSE IF is_hidden(FileName(f)) /\ lower(FileName(f)) \notin allowed_hidden
        THEN [acc EXCEPT !.stats = Bump(Bump(st, "hidden_files"), "skipped_files")]
        ELSE IF ~is_text_file(f)
        THEN [acc EXCEPT !.stats = Bump(Bump(st, "binary_files"), "skipped_files")]
        ELSE [stats |-> st,
              files_to_process |-> Append(acc.files_to_process, root_path \o rel)]

RECURSIVE CollectFiles(_, _, _, _, _)
CollectFiles(files, ks, root_path, root_abs, acc) ==
    IF ks = <<>> THEN acc
    ELSE CollectFiles(files, Tail(ks), root_path, root_abs,
                      CollectFile(files[Head(ks)], root_path, root_abs, acc))

\* collect_files(root_directory) on stats st: the stats it leaves and the
\* list of paths it returns
collect_files(files, root_directory, st) ==
    LET root_path == Path(root_directory)
    IN  IF ~exists(files, root_path)
        THEN [stats |-> AddError(st, "Directory does not exist", root_directory),
              files_to_process |-> <<>>]
        ELSE CollectFiles(files, RGlob(files, Resolve(root_path)), root_path,
                          Resolve(root_path),
                          [stats |-> st, files_to_process |-> <<>>])


(***************************************************************************)
(* Concatenation: the pure parts.  A string of the document is modelled as *)
(* a tuple of its fixed text and the values formatted into it.             *)
(***************************************************************************)
\* a local variable that has not been assigned, and one that has
Unbound == [bound |-> FALSE, value |-> <<>>]

Bound(v) == [bound |-> TRUE, value |-> v]

\* a task's result: not there yet, Python's None, or a string
NoResult == [kind |-> "unset", content |-> <<>>]

None == [kind |-> "None", content |-> <<>>]

Str(text) == [kind |-> "str", content |-> text]

\* the text a successful read returns: the file decoded as UTF-8,
\* errors='ignore'
ReadText(f) == Utf8Decode(f.bytes)

\* f"\n### {relative_path} ###\n{content}\n\n"
Section(relative_path, content) == <<"section", relative_path, content>>

\* the header of concatenate_files_parallel
ParallelHeader(root_directory, n, workers) ==
    <<"header", root_directory, n, "Worker Threads", workers>>

\* the header of concatenate_files
SequentialHeader(root_directory, n) == <<"header", root_directory, n>>

\* batch_size = max(1, len(file_paths) // self.num_workers)
BatchSize(n, workers) == IF n \div workers > 1 THEN n \div workers ELSE 1

\* list.sort(key=lambda x: x[0]) on (str(relative_path), formatted) pairs:
\* a stable insertion sort by the string
RECURSIVE InsertResult(_, _)
InsertResult(sorted, x) ==
    IF sorted = <<>> THEN <<x>>
    ELSE IF StrLess(x[1], Head(sorted)[1]) THEN <<x>> \o sorted
    ELSE <<Head(sorted)>> \o InsertResult(Tail(sorted), x)

\* the results left in the order the tasks completed
SortResultsSkipped(rs) == rs

RECURSIVE SortResults(_)
SortResults(rs) ==
    IF rs = <<>> THEN <<>>
    ELSE InsertResult(SortResults(SubSeq(rs, 1, Len(rs) - 1)), rs[Len(rs)])

\* sorted(files) on pathlib paths
RECURSIVE InsertPath(_, _)
InsertPath(sorted, x) ==
    IF sorted = <<>> THEN <<x>>
    ELSE IF PathLess(x, Head(sorted)) THEN <<x>> \o sorted
    ELSE <<Head(sorted)>> \o InsertPath(Tail(sorted), x)

RECURSIVE SortPaths(_)
SortPaths(ps) ==
    IF ps = <<>> THEN <<>>
    ELSE InsertPath(SortPaths(SubSeq(ps, 1, Len(ps) - 1)), ps[Len(ps)])

\* [content for _, content in results]
Contents(rs) == [j \in 1..Len(rs) |-> rs[j][2]]

\* [Path(file_info['path']) for file_info in selected_files]
PathsOf(selected) == [j \in 1..Len(selected) |-> Path(selected[j].path)]


(***************************************************************************)
(* read_file_chunk, one attempt at a time, and the collection of a result  *)
(* in process_file_batch.                                                  *)
(***************************************************************************)
\* file_size >= self.max_file_size
SizeReaches(f) == f.size >= max_file_size

\* file_size > self.max_file_size
SizeExceeds(f) == f.size > max_file_size

\* how one attempt of read_file_chunk on path p can end: "raise" (stat(),
\* open() or read() raises), "too_large" or "content"
AttemptOutcomes(files, p) ==
    IF ~IsFile(files, Resolve(p)) THEN {"raise"}
    ELSE LET f == FileAt(files, p)
         IN  IF f.read = "gone" THEN {"raise"}
             ELSE IF SizeExceeds(f) THEN {"too_large"}
             ELSE IF f.read = "deny" THEN {"raise"}
             ELSE IF f.read = "flaky" THEN {"content", "raise"}
             ELSE {"content"}

\* an except block that appends the error in every failed attempt
OnReadErrorLogEach(acc, p) ==
    IF acc.fut.attempt = max_retries - 1
    THEN [fut |-> [acc.fut EXCEPT !.state = "done", !.result = None,
                                  !.attempt = @ + 1],
          stats |-> AddError(acc.stats, "Failed to read", p)]
    ELSE [fut |-> [acc.fut EXCEPT !.state = "running", !.attempt = @ + 1],
          stats |-> AddError(acc.stats, "Failed to read", p)]

\* the except block of read_file_chunk in the attempt numbered fut.attempt
\* (from 0); acc is the record of the task (fut) and the stats
OnReadError(acc, p) ==
    IF acc.fut.attempt = max_retries - 1
    THEN [fut |-> [acc.fut EXCEPT !.state = "done", !.result = None,
                                  !.attempt = @ + 1],
          stats |-> AddError(acc.stats, "Failed to read", p)]
    ELSE [fut |-> [acc.fut EXCEPT !.state = "running", !.attempt = @ + 1],
          stats |-> acc.stats]

\* one iteration of the retry loop of read_file_chunk
ReadAttempt(files, acc, p, outcome) ==
    IF outcome = "raise" THEN OnReadError(acc, p)
    ELSE IF outcome = "too_large"
    THEN [fut |-> [acc.fut EXCEPT !.state = "done", !.result = None,
                                  !.attempt = @ + 1],
          stats |-> acc.stats]
    ELSE [fut |-> [acc.fut EXCEPT !.state = "done",
                                  !.result = Str(ReadText(FileAt(files, p))),
                                  !.attempt = @ + 1],
          stats |-> [acc.stats EXCEPT
                        !.processed_size = @ + FileAt(files, p).size]]

\* the body of the as_completed loop for the task of path p with the given
\* result; acc is the record of results and stats
CollectResult(p, result, root_path, acc) ==
    IF result # None
    THEN IF CanRelativize(p, root_path)
         THEN LET rel == JoinPath(relative_to(p, root_path))
              IN  [results |-> Append(acc.results, <<rel, Section(rel, result.content)>>),
                   stats |-> Bump(acc.stats, "concatenated_files")]
         ELSE [results |-> acc.results,
               stats |-> AddError(acc.stats, "Error processing", p)]
    ELSE [results |-> acc.results,
          stats |-> Bump(acc.stats, "skipped_files")]

(***************************************************************************)
(* The state.                                                              *)
(***************************************************************************)
VARIABLES
    fs,             \* the file system
    stats,          \* file_processor.stats
    num_workers,    \* file_processor.num_workers
    selected_files, \* the descriptors the client holds and will send
    pc,             \* "idle", "batch" (in process_file_batch) or "seq"
                    \* (in the loop of concatenate_files)
    run,            \* the call in progress, or the last one
    futures,        \* the read tasks of the parallel run, by position in
                    \* file_paths
    results,        \* results of process_file_batch
    all_content,    \* all_content / concatenated_content
    seq,            \* the locals of concatenate_files
    resp,           \* what the last call returned
    visited,        \* the files the last scan logged as "Processing file"
    nruns,          \* calls started
    docs,           \* the documents of the finished parallel runs on one
                    \* selection, by worker count
    cls_in,         \* the file handed to is_text_file
    cls_out,        \* what it returned
    other,          \* what a request served by a second thread returned
    lock,           \* file_processor.lock
    thr             \* the threads of a parallel run inside a "with
                    \* self.lock" block, or on their way to one

vars ==
    <<fs, stats, num_workers, selected_files, pc, run, futures, results,
      all_content, seq, resp, visited, nruns, docs, cls_in, cls_out, other,
      lock, thr>>

\* NUM_WORKERS default
DefaultWorkers == 8

\* the worker counts a processor is configured with
WorkerCounts == {1, 2, DefaultWorkers}

NoRun ==
    [op |-> "none", directory_path |-> <<>>, use_parallel |-> FALSE,
     file_paths |-> <<>>, root_path |-> <<>>, entry_stats |-> ZeroStats,
     i |-> 1, batch_size |-> 1]

NoSeq == [files |-> <<>>, k |-> 1, relative_path |-> Unbound]

NoResp == [op |-> "none", status |-> "none"]

NoDocs ==
    [selected |-> <<>>, directory_path |-> <<>>,
     by |-> [w \in WorkerCounts |-> <<>>],
     runs |-> [w \in WorkerCounts |-> 0]]

\* threading.Lock(): not held
Unlocked == [held |-> FALSE, by |-> 0]

\* a read task: its state, the attempts made, what read_file_chunk returned,
\* whether the as_completed loop has taken it, and how often it was submitted
NoFuture ==
    [state |-> "none", attempt |-> 0, result |-> NoResult, collected |-> FALSE,
     submits |-> 0]

\* every position from i on, whatever the batch size
BatchRangeRest(r) == r.i .. Len(r.file_paths)

\* the slice file_paths[i:i + batch_size + 1]
BatchRangeInclusive(r) ==
    r.i .. (IF r.i + r.batch_size < Len(r.file_paths)
            THEN r.i + r.batch_size ELSE Len(r.file_paths))

\* the positions of the batch that starts at i
BatchRange(r) ==
    r.i .. (IF r.i + r.batch_size - 1 < Len(r.file_paths)
            THEN r.i + r.batch_size - 1 ELSE Len(r.file_paths))

\* executor.submit for every path of the batch
Submit(futs, r) ==
    [k \in DOMAIN futs |->
        IF k \in BatchRange(r)
        THEN [NoFuture EXCEPT !.state = "pending",
                              !.submits = futs[k].submits + 1]
        ELSE futs[k]]


(***************************************************************************)
(* The operations.                                                         *)
(***************************************************************************)
\* a direct call of collect_files_with_info(d): the core's scan
CollectFilesWithInfo(d) ==
    /\ pc = "idle"
    /\ nruns < MaxRuns
    /\ LET r == collect_files_with_info(fs, d, stats)
       IN  /\ stats' = r.stats
           /\ visited' = r.visited
           /\ selected_files' = r.files_info
           /\ resp' = [op |-> "scan", status |-> "returned", files |-> r.files_info]
    /\ run' = [NoRun EXCEPT !.op = "scan", !.directory_path = d,
                            !.entry_stats = stats]
    /\ nruns' = nruns + 1
    /\ UNCHANGED <<fs, num_workers, pc, futures, results, all_content, seq,
                   docs, cls_in, cls_out, other, lock, thr>>

\* the route /list-files with directory_path d
ListFiles(d) ==
    /\ pc = "idle"
    /\ nruns < MaxRuns
    /\ nruns' = nruns + 1
    /\ run' = [NoRun EXCEPT !.op = "list_files", !.directory_path = d,
                            !.entry_stats = stats]
    /\ IF d = <<>>
       THEN /\ resp' = [op |-> "list_files", status |-> "400",
                        error |-> "Directory path is required"]
            /\ UNCHANGED <<stats, visited, selected_files>>
       ELSE IF ~exists(fs, d)
       THEN /\ resp' = [op |-> "list_files", status |-> "400",
                        error |-> "Directory does not exist"]
            /\ UNCHANGED <<stats, visited, selected_files>>
       ELSE LET r == collect_files_with_info(fs, d, stats)
            IN  /\ stats' = r.stats
                /\ visited' = r.visited
                /\ selected_files' = r.files_info
                /\ resp' = [op |-> "list_files", status |-> "200",
                            files |-> r.files_info]
    /\ UNCHANGED <<fs, num_workers, pc, futures, results, all_content, seq,
                   docs, cls_in, cls_out, other, lock, thr>>

\* the client unticks the j-th file of its list
Deselect(j) ==
    /\ pc = "idle"
    /\ j \in 1..Len(selected_files)
    /\ selected_files' =
          SubSeq(selected_files, 1, j - 1)
          \o SubSeq(selected_files, j + 1, Len(selected_files))
    /\ UNCHANGED <<fs, stats, num_workers, pc, run, futures, results,
                   all_content, seq, resp, visited, nruns, docs, cls_in,
                   cls_out, other, lock, thr>>

\* the route /process with directory_path d, the client's selection and
\* use_parallel, up to the first batch submitted (parallel) or to the loop of
\* concatenate_files (sequential)
Process(d, use_parallel) ==
    /\ pc = "idle"
    /\ nruns < MaxRuns
    /\ nruns' = nruns + 1
    /\ IF d = <<>> \/ selected_files = <<>> \/ ~exists(fs, d)
       THEN /\ resp' = [op |-> "process", status |-> "400",
                        error |-> IF d = <<>> THEN "Directory path is required"
                                  ELSE IF selected_files = <<>>
                                  THEN "No files selected for processing"
                                  ELSE "Directory does not exist"]
            /\ run' = [NoRun EXCEPT !.op = "process", !.directory_path = d,
                                    !.use_parallel = use_parallel,
                                    !.entry_stats = stats]
            /\ UNCHANGED <<stats, pc, futures, results, all_content, seq>>
       ELSE LET file_paths == PathsOf(selected_files)
                n == Len(file_paths)
                r == [op |-> "process", directory_path |-> d,
                      use_parallel |-> use_parallel,
                      file_paths |-> file_paths, root_path |-> Path(d),
                      entry_stats |-> stats, i |-> 1,
                      batch_size |-> BatchSize(n, num_workers)]
            IN  /\ stats' = ZeroStats
                /\ run' = r
                /\ resp' = NoResp
                /\ results' = <<>>
                /\ IF use_parallel
                   THEN /\ all_content' = <<ParallelHeader(d, n, num_workers)>>
                        /\ futures' = Submit([k \in 1..n |-> NoFuture], r)
                        /\ seq' = NoSeq
                        /\ pc' = "batch"
                   ELSE /\ all_content' = <<SequentialHeader(d, n)>>
                        /\ futures' = <<>>
                        /\ seq' = [NoSeq EXCEPT !.files = SortPaths(file_paths)]
                        /\ pc' = "seq"
    /\ UNCHANGED <<fs, num_workers, selected_files, visited, docs, cls_in,
                   cls_out, other, lock, thr>>

\* a worker thread runs one attempt of read_file_chunk for task k.  A task
\* starts when it is the first one waiting and a worker is free.
WorkerAttempt(k) ==
    /\ pc = "batch"
    /\ k \in BatchRange(run)
    /\ \/ futures[k].state = "running"
       \/ /\ futures[k].state = "pending"
          /\ \A j \in BatchRange(run) : j < k => futures[j].state # "pending"
          /\ Cardinality({j \in BatchRange(run) : futures[j].state = "running"})
                < num_workers
    /\ \E outcome \in AttemptOutcomes(fs, run.file_paths[k]) :
          LET r == ReadAttempt(fs, [fut |-> futures[k], stats |-> stats],
                               run.file_paths[k], outcome)
          IN  /\ futures' = [futures EXCEPT ![k] = r.fut]
              /\ stats' = r.stats
    /\ UNCHANGED <<fs, num_workers, selected_files, pc, run, results,
                   all_content, seq, resp, visited, nruns, docs, cls_in,
                   cls_out, other, lock, thr>>

\* as_completed hands the finished task k to the loop of process_file_batch
Collect(k) ==
    /\ pc = "batch"
    /\ k \in BatchRange(run)
    /\ futures[k].state = "done"
    /\ ~futures[k].collected
    /\ LET r == CollectResult(run.file_paths[k], futures[k].result, run.root_path,
                              [results |-> results, stats |-> stats])
       IN  /\ results' = r.results
           /\ stats' = r.stats
    /\ futures' = [futures EXCEPT ![k].collected = TRUE]
    /\ UNCHANGED <<fs, num_workers, selected_files, pc, run, all_content, seq,
                   resp, visited, nruns, docs, cls_in, cls_out, other, lock, thr>>

\* the document of a finished parallel run, kept by worker count, and the
\* number of runs finished under each worker count
Remember(d, r, workers, document) ==
    IF d.selected = r.file_paths /\ d.directory_path = r.directory_path
    THEN [d EXCEPT !.by[workers] = document, !.runs[workers] = @ + 1]
    ELSE [selected |-> r.file_paths, directory_path |-> r.directory_path,
          by |-> [w \in WorkerCounts |-> IF w = workers THEN document ELSE <<>>],
          runs |-> [w \in WorkerCounts |-> IF w = workers THEN 1 ELSE 0]]

\* process_file_batch returns its sorted results; concatenate_files_parallel
\* appends them and goes on to the next batch, or returns to the route
FinishBatch ==
    /\ pc = "batch"
    /\ \A k \in BatchRange(run) : futures[k].collected
    /\ all_content' = all_content \o Contents(SortResults(results))
    /\ results' = <<>>
    /\ IF run.i + run.batch_size <= Len(run.file_paths)
       THEN /\ run' = [run EXCEPT !.i = @ + run.batch_size]
            /\ futures' = Submit(futures, run')
            /\ UNCHANGED <<pc, resp, docs>>
       ELSE /\ pc' = "idle"
            /\ resp' = IF run.op = "process"
                       THEN [op |-> "process", status |-> "200",
                             stats |-> stats, document |-> all_content']
                       ELSE [op |-> run.op, status |-> "returned",
                             stats |-> stats, document |-> all_content']
            /\ docs' = Remember(docs, run, num_workers, all_content')
            /\ UNCHANGED <<run, futures>>
    /\ UNCHANGED <<fs, stats, num_workers, selected_files, seq, visited, nruns,
                   cls_in, cls_out, other, lock, thr>>


\* how open() and read() of concatenate_files on path p can end
SeqReadOutcomes(files, p) ==
    IF ~IsFile(files, Resolve(p)) THEN {"raise"}
    ELSE LET f == FileAt(files, p)
         IN  IF f.read \in {"gone", "deny"} THEN {"raise"}
             ELSE IF f.read = "flaky" THEN {"content", "raise"}
             ELSE {"content"}

\* what the call in progress returns to, and how an exception that leaves
\* concatenate_files ends there: the route answers 500, the caller of
\* FileProcessor.process_directory gets the exception
Returned(r, st, document) ==
    IF r.op = "process"
    THEN [op |-> "process", status |-> "200", stats |-> st, document |-> document]
    ELSE [op |-> "method", status |-> "returned", stats |-> st,
          document |-> document]

Raised(r) ==
    IF r.op = "process"
    THEN [op |-> "process", status |-> "500", error |-> "Processing error"]
    ELSE [op |-> "method", status |-> "raised", error |-> "UnboundLocalError"]

\* one iteration of the loop of concatenate_files
SeqStep ==
    /\ pc = "seq"
    /\ seq.k <= Len(seq.files)
    /\ LET p == seq.files[seq.k]
       IN  IF ~CanRelativize(p, run.root_path)
           THEN \* relative_to raises; the handler reads relative_path
                /\ stats' = AddError(stats, "Error reading", p)
                /\ IF seq.relative_path.bound
                   THEN /\ all_content' = all_content \o
                              << <<"error_header", JoinPath(seq.relative_path.value)>>,
                                 <<"Could not read file">> >>
                        /\ seq' = [seq EXCEPT !.k = @ + 1]
                        /\ UNCHANGED <<pc, resp>>
                   ELSE /\ pc' = "idle"
                        /\ resp' = Raised(run)
                        /\ UNCHANGED <<all_content, seq>>
           ELSE LET rel == relative_to(p, run.root_path)
                IN  /\ seq' = [seq EXCEPT !.k = @ + 1, !.relative_path = Bound(rel)]
                    /\ UNCHANGED <<pc, resp>>
                    /\ \E outcome \in SeqReadOutcomes(fs, p) :
                          IF outcome = "content"
                          THEN /\ all_content' = all_content \o
                                     << <<"file_header", JoinPath(rel)>>,
                                        <<"content", ReadText(FileAt(fs, p))>>,
                                        <<"blank lines">> >>
                               /\ stats' = Bump(stats, "concatenated_files")
                          ELSE /\ all_content' = all_content \o
                                     << <<"file_header", JoinPath(rel)>>,
                                        <<"error_header", JoinPath(rel)>>,
                                        <<"Could not read file">> >>
                               /\ stats' = AddError(stats, "Error reading", p)
    /\ UNCHANGED <<fs, num_workers, selected_files, run, futures, results,
                   visited, nruns, docs, cls_in, cls_out, other, lock, thr>>

\* concatenate_files returns the joined document
SeqDone ==
    /\ pc = "seq"
    /\ seq.k > Len(seq.files)
    /\ pc' = "idle"
    /\ resp' = Returned(run, stats, all_content)
    /\ UNCHANGED <<fs, stats, num_workers, selected_files, run, futures,
                   results, all_content, seq, visited, nruns, docs, cls_in,
                   cls_out, other, lock, thr>>

\* FileProcessor.process_directory(d), up to the loop of concatenate_files
MethodProcessDirectory(d) ==
    /\ pc = "idle"
    /\ nruns < MaxRuns
    /\ nruns' = nruns + 1
    /\ LET r == collect_files(fs, d, MethodZeroStats)
       IN  /\ stats' = r.stats
           /\ run' = [NoRun EXCEPT !.op = "method", !.directory_path = d,
                                   !.file_paths = r.files_to_process,
                                   !.root_path = Path(d),
                                   !.entry_stats = stats]
           /\ seq' = [NoSeq EXCEPT !.files = SortPaths(r.files_to_process)]
           /\ all_content' = <<SequentialHeader(d, Len(r.files_to_process))>>
    /\ pc' = "seq"
    /\ resp' = NoResp
    /\ futures' = <<>>
    /\ results' = <<>>
    /\ UNCHANGED <<fs, num_workers, selected_files, visited, docs, cls_in,
                   cls_out, other, lock, thr>>

\* the processor is configured with another NUM_WORKERS
SetNumWorkers(w) ==
    /\ pc = "idle"
    /\ w # num_workers
    /\ num_workers' = w
    /\ UNCHANGED <<fs, stats, selected_files, pc, run, futures, results,
                   all_content, seq, resp, visited, nruns, docs, cls_in,
                   cls_out, other, lock, thr>>

\* is_text_file is called on the file cls_in
Classify ==
    /\ ~cls_out.called
    /\ cls_out' = [called |-> TRUE, value |-> is_text_file(cls_in)]
    /\ UNCHANGED <<fs, stats, num_workers, selected_files, pc, run, futures,
                   results, all_content, seq, resp, visited, nruns, docs,
                   cls_in, other, lock, thr>>


\* the route /list-files with directory_path d, served by a second thread of
\* the threaded server while a /process request is in progress: it works on
\* the same file_processor
OverlapListFiles(d) ==
    /\ pc \in {"batch", "seq"}
    /\ run.op = "process"
    /\ thr = <<>>
    /\ nruns < MaxRuns
    /\ nruns' = nruns + 1
    /\ IF d = <<>>
       THEN /\ other' = [op |-> "list_files", status |-> "400",
                         error |-> "Directory path is required"]
            /\ UNCHANGED <<stats, visited>>
       ELSE IF ~exists(fs, d)
       THEN /\ other' = [op |-> "list_files", status |-> "400",
                         error |-> "Directory does not exist"]
            /\ UNCHANGED <<stats, visited>>
       ELSE LET r == collect_files_with_info(fs, d, stats)
            IN  /\ stats' = r.stats
                /\ visited' = r.visited
                /\ other' = [op |-> "list_files", status |-> "200",
                             files |-> r.files_info]
    /\ UNCHANGED <<fs, num_workers, selected_files, pc, run, futures, results,
                   all_content, seq, resp, docs, cls_in, cls_out, lock, thr>>

(***************************************************************************)
(* The parallel run with its "with self.lock" blocks taken apart: a thread *)
(* acquires the lock, loads the value under the key, stores the new value  *)
(* and releases the lock.  The worker thread of task k is thread k, the    *)
(* thread that runs process_file_batch is thread 0.                        *)
(***************************************************************************)
\* the one mutation of the stats that takes st to new: the key and the
\* amount added, or the entry appended to errors
StatsOp(st, new) ==
    IF new.errors # st.errors
    THEN [field |-> "errors", val |-> new.errors[Len(new.errors)]]
    ELSE LET f == CHOOSE f \in {"concatenated_files", "skipped_files",
                                "processed_size"} : new[f] # st[f]
         IN  [field |-> f, val |-> new[f] - st[f]]

\* self.stats[field] += val, or self.stats['errors'].append(val), on the
\* value loaded
ApplyOp(field, loaded, val) ==
    IF field = "errors" THEN Append(loaded, val) ELSE loaded + val

\* thr with thread t at rec, and without thread t
WithThread(t, rec) ==
    [x \in DOMAIN thr \cup {t} |-> IF x = t THEN rec ELSE thr[x]]

WithoutThread(t) == [x \in DOMAIN thr \ {t} |-> thr[x]]

\* a lock that is handed out although it is held
CanAcquireAlways(l) == TRUE

\* Lock.acquire returns when the lock is not held
CanAcquire(l) == ~l.held

\* the worker thread of task k runs one attempt of read_file_chunk up to the
\* "with self.lock" of that attempt, or to its end when it has none
LockedAttempt(k) ==
    /\ pc = "batch"
    /\ k \in BatchRange(run)
    /\ k \notin DOMAIN thr
    /\ \/ futures[k].state = "running"
       \/ /\ futures[k].state = "pending"
          /\ \A j \in BatchRange(run) : j < k => futures[j].state # "pending"
          /\ Cardinality({j \in BatchRange(run) : futures[j].state = "running"})
                < num_workers
    /\ \E outcome \in AttemptOutcomes(fs, run.file_paths[k]) :
          LET r == ReadAttempt(fs, [fut |-> futures[k], stats |-> stats],
                               run.file_paths[k], outcome)
          IN  IF r.stats = stats
              THEN /\ futures' = [futures EXCEPT ![k] = r.fut]
                   /\ thr' = thr
              ELSE /\ futures' = [futures EXCEPT ![k].state = "running"]
                   /\ thr' = WithThread(k, [pc |-> "wait", k |-> k,
                                            op |-> StatsOp(stats, r.stats),
                                            loaded |-> <<>>, fut |-> r.fut])
    /\ UNCHANGED <<fs, stats, num_workers, selected_files, pc, run, results,
                   all_content, seq, resp, visited, nruns, docs, cls_in,
                   cls_out, other, lock>>

\* the as_completed loop takes the finished task k up to its "with self.lock"
LockedCollect(k) ==
    /\ pc = "batch"
    /\ k \in BatchRange(run)
    /\ futures[k].state = "done"
    /\ ~futures[k].collected
    /\ 0 \notin DOMAIN thr
    /\ LET r == CollectResult(run.file_paths[k], futures[k].result, run.root_path,
                              [results |-> results, stats |-> stats])
       IN  /\ results' = r.results
           /\ thr' = WithThread(0, [pc |-> "wait", k |-> k,
                                    op |-> StatsOp(stats, r.stats),
                                    loaded |-> <<>>, fut |-> futures[k]])
    /\ UNCHANGED <<fs, stats, num_workers, selected_files, pc, run, futures,
                   all_content, seq, resp, visited, nruns, docs, cls_in,
                   cls_out, other, lock>>

\* with self.lock: __enter__
Acquire(t) ==
    /\ t \in DOMAIN thr
    /\ thr[t].pc = "wait"
    /\ CanAcquire(lock)
    /\ lock' = [held |-> TRUE, by |-> t]
    /\ thr' = [thr EXCEPT ![t].pc = "locked"]
    /\ UNCHANGED <<fs, stats, num_workers, selected_files, pc, run, futures,
                   results, all_content, seq, resp, visited, nruns, docs,
                   cls_in, cls_out, other>>

\* the read of self.stats[field]
Load(t) ==
    /\ t \in DOMAIN thr
    /\ thr[t].pc = "locked"
    /\ thr' = [thr EXCEPT ![t].pc = "loaded", ![t].loaded = stats[thr[t].op.field]]
    /\ UNCHANGED <<fs, stats, num_workers, selected_files, pc, run, futures,
                   results, all_content, seq, resp, visited, nruns, docs,
                   cls_in, cls_out, other, lock>>

\* the write of self.stats[field]
Store(t) ==
    /\ t \in DOMAIN thr
    /\ thr[t].pc = "loaded"
    /\ stats' = [stats EXCEPT ![thr[t].op.field] =
                    ApplyOp(thr[t].op.field, thr[t].loaded, thr[t].op.val)]
    /\ thr' = [thr EXCEPT ![t].pc = "stored"]
    /\ UNCHANGED <<fs, num_workers, selected_files, pc, run, futures, results,
                   all_content, seq, resp, visited, nruns, docs, cls_in,
                   cls_out, other, lock>>

\* with self.lock: __exit__; the worker's attempt ends (read_file_chunk
\* returns), the collecting thread goes on to the next finished task
Release(t) ==
    /\ t \in DOMAIN thr
    /\ thr[t].pc = "stored"
    /\ lock' = Unlocked
    /\ thr' = WithoutThread(t)
    /\ futures' = IF t = 0
                  THEN [futures EXCEPT ![thr[t].k].collected = TRUE]
                  ELSE [futures EXCEPT ![t] = thr[t].fut]
    /\ UNCHANGED <<fs, stats, num_workers, selected_files, pc, run, results,
                   all_content, seq, resp, visited, nruns, docs, cls_in,
                   cls_out, other>>

\* a direct call of concatenate_files_parallel(selected_files, d), up to the
\* first batch submitted, or to its return when there is no file
ConcatenateFilesParallel(d) ==
    /\ pc = "idle"
    /\ nruns < MaxRuns
    /\ nruns' = nruns + 1
    /\ LET file_paths == PathsOf(selected_files)
           n == Len(file_paths)
           r == [op |-> "concat", directory_path |-> d, use_parallel |-> TRUE,
                 file_paths |-> file_paths, root_path |-> Path(d),
                 entry_stats |-> stats, i |-> 1,
                 batch_size |-> BatchSize(n, num_workers)]
       IN  /\ run' = r
           /\ results' = <<>>
           /\ all_content' = <<ParallelHeader(d, n, num_workers)>>
           /\ futures' = Submit([k \in 1..n |-> NoFuture], r)
           /\ seq' = NoSeq
           /\ IF n = 0
              THEN /\ pc' = "idle"
                   /\ resp' = [op |-> "concat", status |-> "returned",
                               stats |-> stats, document |-> all_content']
              ELSE /\ pc' = "batch"
                   /\ resp' = NoResp
    /\ UNCHANGED <<fs, stats, num_workers, selected_files, visited, docs,
                   cls_in, cls_out, other, lock, thr>>

(***************************************************************************)
(* The inputs: file systems, requests, files to classify.                  *)
(***************************************************************************)
\* most files of a drawn file system
MaxFiles == 2
\* most files of a drawn selection
MaxSel == 4

\* the bytes file contents are drawn from: NUL, space, "A", and the two
\* bytes of U+00E9 in UTF-8
ByteAlphabet == {0, 32, 65, 195, 169}

ByteSeqs(n) == UNION {[1..m -> ByteAlphabet] : m \in 0..n}

\* the subsequence of s at the positions in S
RECURSIVE Pick(_, _, _)
Pick(s, S, k) ==
    IF k > Len(s) THEN <<>>
    ELSE (IF k \in S THEN <<s[k]>> ELSE <<>>) \o Pick(s, S, k + 1)

SubSeqsUpTo(s, n) ==
    {Pick(s, S, 1) : S \in {T \in SUBSET (1..Len(s)) : Cardinality(T) <= n}}

\* the example tree: a.py, b.png (with a null byte), .git/config and
\* node_modules/x.js
ExampleTree ==
    << Plain(P \o <<n_a_py>>, <<65>>),
       Plain(P \o <<n_b_png>>, <<65, 0>>),
       Plain(P \o <<n_git, n_config>>, <<65>>),
       Plain(P \o <<n_node_modules, n_x_js>>, <<65>>) >>

\* the files the scanned file systems are made of
ScanCandidates ==
    ExampleTree \o
    << Plain(P \o <<n_src, n_Node_Modules, n_a_py>>, <<65>>),
       Plain(P \o <<n_src, n_data>>, <<195, 169>>),
       Plain(P \o <<n_hidden>>, <<65>>),
       Plain(P \o <<n_env>>, <<65>>),
       File(P \o <<n_X_PY>>, <<65>>, "denied", 0, TRUE, 1, "deny"),
       File(P \o <<n_src, n_a_py>>, <<65>>, "ok", 0, FALSE, 1, "ok"),
       Plain(P \o <<n_data>>, <<32>>),
       Plain(P \o <<n_src, n_svn, n_c_txt>>, <<65>>),
       File(P \o <<n_d_md>>, <<65>>, "ok", 0, TRUE, 1, "gone"),
       File(P \o <<n_cache>>, <<65>>, "denied", 0, TRUE, 1, "deny") >>

Trees == SubSeqsUpTo(ScanCandidates, MaxFiles) \cup {ExampleTree}

\* the directory paths a client sends: the root, the root as a relative
\* path, a directory that does not exist, one that cannot be listed, nothing
DirChoices == {P, <<n_p>>, Gone, Locked, <<>>}

\* the file system of the concatenation runs
ConcatFiles ==
    << Plain(P \o <<n_src, n_a_py>>, <<65, 195, 169>>),
       File(P \o <<n_d_md>>, <<65, 32>>, "ok", 0, TRUE, 2, "flaky"),
       File(P \o <<n_c_txt>>, <<65>>, "ok", 0, TRUE, max_file_size + 1, "ok"),
       File(P \o <<n_a_py>>, <<65>>, "ok", 0, TRUE, max_file_size, "ok"),
       File(P \o <<n_e_js>>, <<65>>, "ok", 0, TRUE, 1, "gone"),
       Plain(<<n_slash, n_other, n_x_js>>, <<65>>) >>

\* a descriptor as a client sends it
Descriptor(f) ==
    [path |-> f.path, relative_path |-> Tail(Tail(f.path)), name |-> FileName(f),
     size |-> f.size, selected |-> TRUE]

Selections ==
    {[j \in 1..Len(s) |-> Descriptor(s[j])] :
        s \in SubSeqsUpTo(ConcatFiles, MaxSel) \ {<<>>}}

ClassifyNames ==
    {n_a_py, n_X_PY, n_b_png, n_data, n_README, n_readme_bin, n_env, n_hidden,
     n_config}

ClassifyFiles ==
    {File(<<n_slash, name>>, bytes, mode, open_errs, TRUE, Len(bytes), "ok") :
        name \in ClassifyNames, bytes \in ByteSeqs(MaxBytes),
        mode \in {"ok", "denied", "missing"}, open_errs \in 0..ProbeAttempts}

NoFile == Plain(<<n_slash, n_p>>, <<>>)

\* most files of a selection handed to concatenate_files_parallel directly
MaxBatch == 5

\* files that all read well
BatchFiles ==
    << Plain(P \o <<n_a_py>>, <<65>>),
       Plain(P \o <<n_c_txt>>, <<65>>),
       Plain(P \o <<n_d_md>>, <<65>>),
       Plain(P \o <<n_e_js>>, <<65>>),
       Plain(P \o <<n_README>>, <<65>>),
       Plain(P \o <<n_src, n_a_py>>, <<65>>),
       Plain(P \o <<n_src, n_data>>, <<65>>) >>

\* the selections of the first files, none to MaxBatch
BatchSelections ==
    {[j \in 1..m |-> Descriptor(BatchFiles[j])] :
        m \in 0..(IF MaxBatch < Len(BatchFiles) THEN MaxBatch ELSE Len(BatchFiles))}

(***************************************************************************)
(* The specifications.                                                     *)
(***************************************************************************)
InitCommon ==
    /\ stats = ZeroStats
    /\ num_workers = DefaultWorkers
    /\ pc = "idle"
    /\ run = NoRun
    /\ futures = <<>>
    /\ results = <<>>
    /\ all_content = <<>>
    /\ seq = NoSeq
    /\ resp = NoResp
    /\ visited = <<>>
    /\ nruns = 0
    /\ docs = NoDocs
    /\ other = NoResp
    /\ lock = Unlocked
    /\ thr = <<>>

\* scans and runs on a drawn file system, one processor with the default
\* worker count
Init ==
    /\ InitCommon
    /\ fs \in Trees
    /\ selected_files = <<>>
    /\ cls_in = NoFile
    /\ cls_out = [called |-> TRUE, value |-> FALSE]

Workers ==
    \/ \E k \in 1..Len(run.file_paths) : WorkerAttempt(k)
    \/ \E k \in 1..Len(run.file_paths) : Collect(k)
    \/ FinishBatch
    \/ SeqStep
    \/ SeqDone

Next ==
    \/ \E d \in DirChoices \ {<<>>} : CollectFilesWithInfo(d)
    \/ \E d \in DirChoices : ListFiles(d)
    \/ \E j \in 1..Len(selected_files) : Deselect(j)
    \/ \E d \in DirChoices, use_parallel \in BOOLEAN : Process(d, use_parallel)
    \/ \E d \in DirChoices \ {<<>>} : MethodProcessDirectory(d)
    \/ Workers

Spec == Init /\ [][Next]_vars

\* concatenation runs of one selection under several worker counts
InitConcat ==
    /\ InitCommon
    /\ fs = ConcatFiles
    /\ selected_files \in Selections
    /\ cls_in = NoFile
    /\ cls_out = [called |-> TRUE, value |-> FALSE]

NextConcat ==
    \/ \E w \in WorkerCounts : SetNumWorkers(w)
    \/ \E use_parallel \in BOOLEAN : Process(P, use_parallel)
    \/ Workers

SpecConcat == InitConcat /\ [][NextConcat]_vars

\* the classifier on a drawn file
InitClassify ==
    /\ InitCommon
    /\ fs = <<>>
    /\ selected_files = <<>>
    /\ cls_in \in ClassifyFiles
    /\ cls_out = [called |-> FALSE, value |-> FALSE]

NextClassify == Classify

SpecClassify == InitClassify /\ [][NextClassify]_vars


\* a /process request and a /list-files request that overlaps it
NextOverlap ==
    \/ \E use_parallel \in BOOLEAN : Process(P, use_parallel)
    \/ Workers
    \/ \E d \in DirChoices : OverlapListFiles(d)

SpecOverlap == InitConcat /\ [][NextOverlap]_vars

\* a parallel run, lock step by lock step
LockedWorkers ==
    \/ \E k \in 1..Len(run.file_paths) : LockedAttempt(k)
    \/ \E k \in 1..Len(run.file_paths) : LockedCollect(k)
    \/ \E t \in DOMAIN thr : Acquire(t)
    \/ \E t \in DOMAIN thr : Load(t)
    \/ \E t \in DOMAIN thr : Store(t)
    \/ \E t \in DOMAIN thr : Release(t)
    \/ FinishBatch

\* one run under a worker count set before it
NextLock ==
    \/ \E w \in WorkerCounts : nruns = 0 /\ SetNumWorkers(w)
    \/ nruns = 0 /\ Process(P, TRUE)
    \/ LockedWorkers

SpecLock == InitConcat /\ [][NextLock]_vars

\* one direct call of concatenate_files_parallel on files that read well,
\* under a worker count set before it
InitBatch ==
    /\ InitCommon
    /\ fs = BatchFiles
    /\ selected_files \in BatchSelections
    /\ cls_in = NoFile
    /\ cls_out = [called |-> TRUE, value |-> FALSE]

NextBatch ==
    \/ \E w \in WorkerCounts : nruns = 0 /\ SetNumWorkers(w)
    \/ nruns = 0 /\ ConcatenateFilesParallel(P)
    \/ \E k \in 1..Len(run.file_paths) : WorkerAttempt(k)
    \/ \E k \in 1..Len(run.file_paths) : Collect(k)
    \/ FinishBatch

SpecBatch == InitBatch /\ [][NextBatch]_vars

(***************************************************************************)
(* The claims.                                                             *)
(***************************************************************************)
\* the first 1024 bytes of the file hold a null byte
NullByteInProbe(f) ==
    \E i \in 1..Len(f.bytes) : i <= 1024 /\ f.bytes[i] = 0

\* C1, as stated: a file with a null byte in its first 1024 bytes is never
\* classified Text, whatever its extension or name
C1_NullByteNeverText ==
    (cls_out.called /\ NullByteInProbe(cls_in)) => ~cls_out.value

\* C1, amended: a file with a null byte in its first 1024 bytes is never
\* classified Text, unless its extension is in included_extensions or its
\* name starts with a special file name (those are Text without a look at
\* the content)
C1_NullByteNotTextUnlessListed ==
    (/\ cls_out.called
     /\ NullByteInProbe(cls_in)
     /\ lower(suffix(FileName(cls_in))) \notin included_extensions
     /\ \A sf \in special_files : ~startswith(lower(FileName(cls_in)), sf))
    => ~cls_out.value

C1_Witness ==
    /\ cls_out.called
    /\ ~cls_out.value
    /\ FileName(cls_in) = n_b_png
    /\ cls_in.mode = "ok"
    /\ cls_in.open_errs = 0
    /\ cls_in.bytes = <<65, 0>>

\* the names C2 lists
C2_ExcludedNames ==
    {n_git, n_svn, <<".", "h", "g">>, <<".", "v", "e", "n", "v">>,
     <<"v", "e", "n", "v">>, <<"e", "n", "v">>,
     <<"_", "_", "p", "y", "c", "a", "c", "h", "e", "_", "_">>, n_node_modules}

\* a scan has returned a list
ScanReturned ==
    /\ pc = "idle"
    /\ run.op \in {"scan", "list_files"}
    /\ resp.status \in {"returned", "200"}

\* C2: no descriptor a scan returns lies below a directory with an excluded
\* name (in any case, at any depth), and no file below such a directory is
\* visited by the scan
C2_ExcludedSubtreesNeverScanned ==
    /\ ScanReturned =>
          \A j \in 1..Len(resp.files) :
              \A i \in 1..(Len(resp.files[j].relative_path) - 1) :
                  lower(resp.files[j].relative_path[i]) \notin C2_ExcludedNames
    /\ \A j \in 1..Len(visited) :
          \A i \in 1..(Len(visited[j]) - 1) :
              lower(visited[j][i]) \notin C2_ExcludedNames

C2_Witness ==
    /\ ScanReturned
    /\ Len(resp.files) = 1
    /\ \E k \in 1..Len(fs) : fs[k].path = P \o <<n_src, n_Node_Modules, n_a_py>>
    /\ \E k \in 1..Len(fs) : fs[k].path = P \o <<n_a_py>>

\* a scan of the example tree at its root, from zeroed stats, has returned
ExampleScanned ==
    /\ ScanReturned
    /\ fs = ExampleTree
    /\ abspath(run.directory_path) = P
    /\ run.entry_stats = ZeroStats

\* C3, as stated: the scan of the example tree returns a.py alone and leaves
\* total_files 4, skipped_files 3, binary_files 1
C3_ExampleCountsFour ==
    ExampleScanned =>
        /\ Len(resp.files) = 1
        /\ resp.files[1].relative_path = <<n_a_py>>
        /\ stats.total_files = 4
        /\ stats.skipped_files = 3
        /\ stats.binary_files = 1

\* C3, amended: the scan (collect_files_with_info) of the example tree
\* returns a.py alone and leaves total_files 2, skipped_files 1,
\* binary_files 1: the files below .git and node_modules are pruned and
\* counted nowhere.  Only collect_files, the scan of
\* FileProcessor.process_directory, counts them: it returns a.py alone and
\* leaves 4, 3 and 1.
C3_ExampleCountsTwo ==
    /\ ExampleScanned =>
          /\ Len(resp.files) = 1
          /\ resp.files[1].relative_path = <<n_a_py>>
          /\ stats.total_files = 2
          /\ stats.skipped_files = 1
          /\ stats.binary_files = 1
    /\ (run.op = "method" /\ fs = ExampleTree /\ abspath(run.directory_path) = P) =>
          /\ Len(run.file_paths) = 1
          /\ Resolve(run.file_paths[1]) = P \o <<n_a_py>>
          /\ stats.total_files = 4
          /\ stats.skipped_files = 3
          /\ stats.binary_files = 1

C3_Witness ==
    /\ ExampleScanned
    /\ run.op = "list_files"
    /\ Len(resp.files) = 1
    /\ stats.total_files = 2


\* a /process request or a call of FileProcessor.process_directory has
\* returned its document
RunReturned ==
    /\ pc = "idle"
    /\ run.op \in {"process", "method"}
    /\ resp.op = run.op
    /\ resp.status \in {"200", "returned"}

\* C4: after a scan and a concatenation of everything selected,
\* total_files = concatenated_files + skipped_files
C4_TotalIsConcatenatedPlusSkipped ==
    RunReturned =>
        stats.total_files = stats.concatenated_files + stats.skipped_files

\* the parallel run in progress, or the last one
ParRun == run.op = "process" /\ run.use_parallel /\ run.file_paths # <<>>

ParDone == ParRun /\ pc = "idle" /\ resp.op = "process" /\ resp.status = "200"

\* the per-file sections of a document of concatenate_files_parallel
C5_Sections(doc) == {doc[j] : j \in 2..Len(doc)}

\* no file of the remembered selection reads differently from one attempt
\* to the next
C5_Fixed ==
    \A j \in 1..Len(docs.selected) :
        IsFile(fs, Resolve(docs.selected[j])) =>
            FileAt(fs, docs.selected[j]).read # "flaky"

\* the batch, under w workers, of the file a section belongs to
C5_BatchOf(sec, w) ==
    LET root == Path(docs.directory_path)
        k == CHOOSE j \in 1..Len(docs.selected) :
                /\ CanRelativize(docs.selected[j], root)
                /\ JoinPath(relative_to(docs.selected[j], root)) = sec[2]
    IN  (k - 1) \div BatchSize(Len(docs.selected), w)

C5_Pos(doc, sec) == CHOOSE j \in 2..Len(doc) : doc[j] = sec

\* C5: the documents of one selection under 1 worker and under more workers
\* hold the same set of sections, and two sections of one batch stand in the
\* same order in both
C5_SameSectionsAnyWorkerCount ==
    \A w \in WorkerCounts \ {1} :
        (docs.by[1] # <<>> /\ docs.by[w] # <<>> /\ C5_Fixed) =>
            /\ C5_Sections(docs.by[1]) = C5_Sections(docs.by[w])
            /\ Len(docs.by[1]) = Len(docs.by[w])
            /\ \A a, b \in 2..Len(docs.by[w]) :
                  (a < b /\ C5_BatchOf(docs.by[w][a], w) = C5_BatchOf(docs.by[w][b], w))
                  => C5_Pos(docs.by[1], docs.by[w][a]) < C5_Pos(docs.by[1], docs.by[w][b])

C5_Witness ==
    /\ docs.by[1] # <<>>
    /\ docs.by[8] # <<>>
    /\ C5_Fixed
    /\ Len(docs.by[1]) >= 3
    /\ Tail(docs.by[1]) # Tail(docs.by[8])
    /\ C5_Sections(docs.by[1]) = C5_Sections(docs.by[8])

\* C6: a /process request that passed validation returns a document, whatever
\* happens to single files
C6_RunNeverAborts ==
    (pc = "idle" /\ run.op = "process" /\ resp.op = "process"
       /\ resp.status # "400")
    => resp.status = "200"

\* the selected file k exists and is larger than the maximum
C7_TooLarge(k) ==
    /\ IsFile(fs, Resolve(run.file_paths[k]))
    /\ FileAt(fs, run.file_paths[k]).read # "gone"
    /\ FileAt(fs, run.file_paths[k]).size > 10485760

\* the selected file k reads without error, is within the maximum and lies
\* below the root
C7_Readable(k) ==
    /\ IsFile(fs, Resolve(run.file_paths[k]))
    /\ FileAt(fs, run.file_paths[k]).read = "ok"
    /\ FileAt(fs, run.file_paths[k]).size <= 10485760
    /\ CanRelativize(run.file_paths[k], run.root_path)

\* a list of strings holds a section for the selected file k
C7_HasSection(content, k) ==
    /\ CanRelativize(run.file_paths[k], run.root_path)
    /\ \E j \in 1..Len(content) :
          /\ content[j][1] = "section"
          /\ content[j][2] = JoinPath(relative_to(run.file_paths[k], run.root_path))

\* the tasks collected with no content
C7_CollectedNone ==
    {k \in DOMAIN futures : futures[k].collected /\ futures[k].result = None}

\* C7: in a parallel run a file larger than the maximum is given up in its
\* first attempt, never retried, gets no section and is counted once in
\* skipped_files, and the files that read well still get their sections
C7_TooLargeSkippedWithoutRetry ==
    ParRun =>
        /\ \A k \in DOMAIN futures :
              C7_TooLarge(k) =>
                  /\ futures[k].state # "running"
                  /\ futures[k].attempt <= 1
                  /\ futures[k].state = "done" =>
                        futures[k].attempt = 1 /\ futures[k].result = None
                  /\ ~C7_HasSection(all_content, k)
                  /\ ~\E j \in 1..Len(results) :
                        results[j][1] = JoinPath(relative_to(run.file_paths[k],
                                                             run.root_path))
        /\ stats.skipped_files = Cardinality(C7_CollectedNone)
        /\ ParDone =>
              \A k \in DOMAIN futures :
                  C7_Readable(k) =>
                      futures[k].collected /\ C7_HasSection(resp.document, k)

C7_Witness ==
    /\ ParDone
    /\ stats.skipped_files = 1
    /\ \E k \in DOMAIN futures : C7_TooLarge(k) /\ futures[k].attempt = 1
    /\ \E k \in DOMAIN futures : C7_Readable(k) /\ C7_HasSection(resp.document, k)

\* the "Failed to read" diagnostics for the selected file k
C8_Diagnostics(k) ==
    Cardinality({j \in 1..Len(stats.errors) :
                    stats.errors[j] = <<"Failed to read", run.file_paths[k]>>})

\* every attempt on the selected file k has failed
C8_AllFailed(k) ==
    /\ futures[k].state = "done"
    /\ futures[k].result = None
    /\ ~C7_TooLarge(k)

\* C8: read_file_chunk makes at most 3 attempts on a file; when all fail,
\* exactly one diagnostic is appended, the file gets no section and is
\* counted skipped; when one succeeds no such diagnostic is appended; the
\* files that read well still get their sections
C8_RetriesBoundedOneDiagnostic ==
    ParRun =>
        /\ \A k \in DOMAIN futures :
              /\ futures[k].attempt <= 3
              /\ C8_AllFailed(k) =>
                    /\ futures[k].attempt = 3
                    /\ C8_Diagnostics(k) = 1
                    /\ ~C7_HasSection(all_content, k)
                    /\ futures[k].collected => k \in C7_CollectedNone
              /\ ~C8_AllFailed(k) => C8_Diagnostics(k) = 0
        /\ stats.skipped_files = Cardinality(C7_CollectedNone)
        /\ \A k \in DOMAIN futures :
              CanRelativize(run.file_paths[k], run.root_path) =>
                  Cardinality({j \in 1..Len(stats.errors) :
                                  stats.errors[j][2] = run.file_paths[k]})
                      = IF C8_AllFailed(k) THEN 1 ELSE 0
        /\ ParDone =>
              \A k \in DOMAIN futures :
                  (C7_Readable(k)
                     \/ (futures[k].result.kind = "str"
                         /\ CanRelativize(run.file_paths[k], run.root_path)))
                  => C7_HasSection(resp.document, k)

C8_Witness ==
    /\ ParDone
    /\ \E k \in DOMAIN futures :
          /\ futures[k].attempt = 3
          /\ futures[k].result.kind = "str"
          /\ C8_Diagnostics(k) = 0
    /\ \E k \in DOMAIN futures : C8_AllFailed(k) /\ C8_Diagnostics(k) = 1
    /\ Len(stats.errors) = 1

\* the root of the last scan does not exist or cannot be listed
C9_BadRoot ==
    \/ ~(IsDir(fs, abspath(run.directory_path))
         \/ IsFile(fs, abspath(run.directory_path)))
    \/ abspath(run.directory_path) \in {Locked}

\* C9: a scan of a root that does not exist or cannot be listed returns an
\* empty list and appends one diagnostic to errors; nothing is raised
C9_BadRootFailsSoftly ==
    (pc = "idle" /\ run.op \in {"scan", "list_files"} /\ resp.status # "400"
       /\ C9_BadRoot)
    => /\ resp.status \in {"returned", "200"}
       /\ resp.files = <<>>
       /\ Len(stats.errors) = Len(run.entry_stats.errors) + 1
       /\ SubSeq(stats.errors, 1, Len(run.entry_stats.errors)) = run.entry_stats.errors
       /\ stats.errors[Len(stats.errors)][2] = abspath(run.directory_path)
       /\ [stats EXCEPT !.errors = <<>>] = [run.entry_stats EXCEPT !.errors = <<>>]

C9_Witness ==
    /\ pc = "idle"
    /\ run.op = "scan"
    /\ run.directory_path = Locked
    /\ resp.files = <<>>
    /\ Len(stats.errors) = 2
    /\ stats.errors[1][2] = Gone

\* C10: when a scan has returned, the stats are those of that scan alone
C10_StatsOfLastRunOnly ==
    ScanReturned =>
        stats = collect_files_with_info(fs, run.directory_path, ZeroStats).stats


\* a /process request has answered 200
ProcessReturned ==
    /\ pc = "idle"
    /\ run.op = "process"
    /\ resp.op = "process"
    /\ resp.status = "200"

\* C11: the stats reported for a /process run hold nothing of another run:
\* the counters only a scan increments are zero and every error is about a
\* file of the run's selection
C11_StatsOwnedByRun ==
    ProcessReturned =>
        /\ resp.stats.total_files = 0
        /\ resp.stats.hidden_files = 0
        /\ resp.stats.binary_files = 0
        /\ \A j \in 1..Len(resp.stats.errors) :
              \E k \in 1..Len(run.file_paths) :
                  resp.stats.errors[j][2] = run.file_paths[k]


\* C12: a file named README (one that exists) is classified Text, whatever
\* its content
C12_ReadmeAlwaysText ==
    (cls_out.called /\ FileName(cls_in) = n_README /\ cls_in.mode # "missing")
    => cls_out.value


\* the batch of the selected file k
C13_BatchOf(k) == (k - 1) \div run.batch_size

\* the read task of the selected file k has been submitted
C13_Started(k) == futures[k].state # "none"

\* C13: in a parallel run no read task of a batch is submitted before every
\* task of the batches before it is done and collected and their sections are
\* in the document, and the header is the first string of the document
C13_BatchBarrier ==
    ParRun =>
        /\ Len(all_content) >= 1
        /\ all_content[1][1] = "header"
        /\ \A j \in 2..Len(all_content) : all_content[j][1] = "section"
        /\ \A k \in DOMAIN futures :
              C13_Started(k) =>
                  \A j \in DOMAIN futures :
                      C13_BatchOf(j) < C13_BatchOf(k) =>
                          /\ futures[j].state = "done"
                          /\ futures[j].collected
                          /\ (futures[j].result.kind = "str"
                                /\ CanRelativize(run.file_paths[j], run.root_path))
                             => C7_HasSection(all_content, j)

C13_Witness ==
    /\ ParRun
    /\ pc = "batch"
    /\ run.batch_size = 2
    /\ run.i = 3
    /\ Len(all_content) = 3
    /\ \E k \in DOMAIN futures :
          C13_BatchOf(k) = 1 /\ futures[k].state = "running"


\* the threads inside a "with self.lock" block
C14_InLock == {t \in DOMAIN thr : thr[t].pc \in {"locked", "loaded", "stored"}}

\* the bytes of the files read so far, among the first k selected
RECURSIVE C14_SizeRead(_)
C14_SizeRead(k) ==
    IF k = 0 THEN 0
    ELSE C14_SizeRead(k - 1)
         + (IF futures[k].result.kind = "str"
            THEN FileAt(fs, run.file_paths[k]).size ELSE 0)

\* C14: in a parallel run at most one thread is inside a "with self.lock"
\* block, it holds the lock, and no mutation of the stats is lost: when the
\* run has returned every counter and the errors hold one mutation for every
\* task that made one
C14_StatsUnderLock ==
    ParRun =>
        /\ Cardinality(C14_InLock) <= 1
        /\ \A t \in C14_InLock : lock.held /\ lock.by = t
        /\ (C14_InLock = {}) => ~lock.held
        /\ ParDone =>
              /\ thr = <<>>
              /\ stats.concatenated_files =
                    Cardinality({k \in DOMAIN futures :
                                    /\ futures[k].result.kind = "str"
                                    /\ CanRelativize(run.file_paths[k], run.root_path)})
              /\ stats.skipped_files =
                    Cardinality({k \in DOMAIN futures : futures[k].result = None})
              /\ stats.processed_size = C14_SizeRead(Len(futures))
              /\ Len(stats.errors) =
                    Cardinality({k \in DOMAIN futures : C8_AllFailed(k)})
                    + Cardinality({k \in DOMAIN futures :
                                      /\ futures[k].result.kind = "str"
                                      /\ ~CanRelativize(run.file_paths[k], run.root_path)})

C14_Witness ==
    /\ ParRun
    /\ \E t, u \in DOMAIN thr :
          /\ t # 0
          /\ u # 0
          /\ thr[t].pc = "loaded"
          /\ thr[u].pc = "wait"
          /\ thr[t].op.field = "processed_size"
          /\ thr[u].op.field = "processed_size"
    /\ lock.held


\* the selected file a section of the run's document belongs to
C15_IndexOf(sec) ==
    CHOOSE k \in 1..Len(run.file_paths) :
        /\ CanRelativize(run.file_paths[k], run.root_path)
        /\ JoinPath(relative_to(run.file_paths[k], run.root_path)) = sec[2]

\* two neighbouring sections of one batch stand in ascending order of their
\* relative paths
C15_SortedInBatch ==
    ParRun =>
        \A j \in 2..(Len(all_content) - 1) :
            (C13_BatchOf(C15_IndexOf(all_content[j]))
                = C13_BatchOf(C15_IndexOf(all_content[j + 1])))
            => StrLess(all_content[j][2], all_content[j + 1][2])

\* a run that finishes on the same selection and root under a worker count
\* that has a document already returns that document again
C15_SameDocumentAgain ==
    \A w \in WorkerCounts :
        (/\ docs.by[w] # <<>>
         /\ docs'.selected = docs.selected
         /\ docs'.directory_path = docs.directory_path
         /\ C5_Fixed)
        => docs'.by[w] = docs.by[w]

\* C15: for one selection, fixed contents and one worker count the document
\* is the same whatever the order in which the reads finish and are
\* collected, and within a batch the sections are in ascending order of
\* relative path
C15_DocumentDeterministic ==
    [](C15_SortedInBatch) /\ [][C15_SameDocumentAgain]_vars

C15_Witness ==
    /\ ParDone
    /\ C5_Fixed
    /\ num_workers = 2
    /\ docs.runs[2] = 2
    /\ run.batch_size = 2
    /\ Len(resp.document) >= 3
    /\ C13_BatchOf(C15_IndexOf(resp.document[2]))
          = C13_BatchOf(C15_IndexOf(resp.document[3]))


\* max(1, floor(count / workerCount))
C16_Size == IF Len(run.file_paths) \div num_workers >= 1
            THEN Len(run.file_paths) \div num_workers ELSE 1

\* the last position submitted so far
C16_Last == IF run.i + C16_Size - 1 < Len(run.file_paths)
            THEN run.i + C16_Size - 1 ELSE Len(run.file_paths)

\* C16: concatenate_files_parallel takes the selection in contiguous batches
\* of max(1, floor(count / workerCount)) files, the last one maybe shorter:
\* the files submitted so far are the first ones of the selection, each
\* submitted once, and when the call has returned every file was submitted
\* once and read
C16_ContiguousBatches ==
    run.op = "concat" =>
        /\ run.batch_size = C16_Size
        /\ (run.i - 1) % C16_Size = 0
        /\ DOMAIN futures = 1..Len(run.file_paths)
        /\ {k \in DOMAIN futures : futures[k].submits = 1} = 1..C16_Last
        /\ \A k \in DOMAIN futures :
              /\ futures[k].submits <= 1
              /\ k < run.i => futures[k].collected
              /\ futures[k].state \in {"done", "running"} => k \in run.i..C16_Last
                                                           \/ futures[k].collected
        /\ pc = "idle" =>
              /\ resp.status = "returned"
              /\ Len(resp.document) = 1 + Len(run.file_paths)
              /\ \A k \in DOMAIN futures :
                    /\ futures[k].submits = 1
                    /\ futures[k].attempt = 1
                    /\ futures[k].collected

C16_Witness ==
    /\ run.op = "concat"
    /\ pc = "idle"
    /\ Len(run.file_paths) = 5
    /\ num_workers = 2
    /\ run.batch_size = 2
    /\ run.i = 5
    /\ Len(resp.document) = 6


\* the files the last scan enumerated whose name starts with "." and is not
\* one of the allowed hidden names
C17_HiddenVisited ==
    {j \in 1..Len(visited) :
        /\ startswith(visited[j][Len(visited[j])], <<".">>)
        /\ lower(visited[j][Len(visited[j])]) \notin allowed_hidden}

\* C17: a scan counts every enumerated hidden file that is not an allowed one
\* in hidden_files and in skipped_files and returns no descriptor for it
C17_HiddenCountedAndSkipped ==
    ScanReturned =>
        /\ stats.hidden_files - run.entry_stats.hidden_files
              = Cardinality(C17_HiddenVisited)
        /\ stats.skipped_files - run.entry_stats.skipped_files
              >= Cardinality(C17_HiddenVisited)
        /\ \A j \in C17_HiddenVisited :
              \A i \in 1..Len(resp.files) : resp.files[i].path # visited[j]


\* the files the last scan enumerated that hold a null byte in their first
\* 1024 bytes
C18_NullByteVisited ==
    {j \in 1..Len(visited) : NullByteInProbe(FileAt(fs, visited[j]))}

\* C18: a scan increments binary_files only for files with a null byte in
\* the probe; a file skipped because it cannot be read, or because its probe
\* is empty, is counted in skipped_files alone
C18_BinaryOnlyForNullByte ==
    ScanReturned =>
        stats.binary_files - run.entry_stats.binary_files
            <= Cardinality(C18_NullByteVisited)


\* the bytes are well-formed UTF-8 (one- and two-byte sequences)
RECURSIVE C19_ValidUtf8(_)
C19_ValidUtf8(b) ==
    IF b = <<>> THEN TRUE
    ELSE IF b[1] < 128 THEN C19_ValidUtf8(Tail(b))
    ELSE IF /\ b[1] \in 194..223
            /\ Len(b) >= 2
            /\ b[2] \in 128..191
         THEN C19_ValidUtf8(SubSeq(b, 3, Len(b)))
    ELSE FALSE

\* the probe read as Latin-1 (every byte is the character of its value) has a
\* character that is not whitespace
C19_NonWhitespace(b) == \E i \in 1..Len(b) : ~IsSpace(b[i])

\* C19: a readable file with an unlisted extension and name whose probe has no
\* null byte, is not valid UTF-8 and has non-whitespace content is classified
\* Text
C19_NonUtf8TextIsText ==
    (/\ cls_out.called
     /\ cls_in.mode = "ok"
     /\ cls_in.open_errs = 0
     /\ ~InWhitelist(cls_in)
     /\ ~NullByteInProbe(cls_in)
     /\ ~C19_ValidUtf8(Take(cls_in.bytes, ProbeSize))
     /\ C19_NonWhitespace(Take(cls_in.bytes, ProbeSize)))
    => cls_out.value


\* C20: after a parallel run on reset stats over n selected files,
\* concatenated_files + skipped_files = n and the document has exactly
\* concatenated_files sections after its header
C20_EveryFileCountedOnce ==
    ParDone =>
        /\ resp.stats.concatenated_files + resp.stats.skipped_files
               = Len(run.file_paths)
        /\ Len(resp.document) - 1 = resp.stats.concatenated_files


\* a scan that started on zeroed counters has returned its list
C21_FreshScanReturned ==
    /\ ScanReturned
    /\ run.entry_stats.total_files = 0
    /\ run.entry_stats.skipped_files = 0
    /\ run.entry_stats.hidden_files = 0
    /\ run.entry_stats.binary_files = 0

\* C21: after collect_files_with_info on reset stats, total_files is
\* skipped_files plus the number of returned descriptors, and hidden_files +
\* binary_files is at most skipped_files: every enumerated file is either
\* returned or counted once as skipped, and never both
C21_EnumeratedReturnedOrSkipped ==
    C21_FreshScanReturned =>
        /\ stats.total_files = Len(visited)
        /\ stats.total_files = stats.skipped_files + Len(resp.files)
        /\ stats.hidden_files + stats.binary_files <= stats.skipped_files
        /\ \A i \in 1..Len(resp.files) :
              \E j \in 1..Len(visited) : visited[j] = resp.files[i].path
        /\ \A i, j \in 1..Len(resp.files) :
              resp.files[i].path = resp.files[j].path => i = j

\* a scan met a text file whose metadata could not be read, and returned
\* another file
C21_Witness ==
    /\ C21_FreshScanReturned
    /\ stats.total_files = 2
    /\ stats.skipped_files = 1
    /\ stats.hidden_files + stats.binary_files = 0
    /\ Len(resp.files) = 1
    /\ \E k \in 1..Len(fs) : ~fs[k].info_ok /\ fs[k].path \in {visited[j] : j \in 1..Len(visited)}

=============================================================================
